---- MODULE Spec2Model ----
(***************************************************************************)
(* SortableTable (src/src/sortabletable/sortabletable.tsx): a presentational *)
(* table.  The caller owns the props (count, columns, sortSetting, the      *)
(* display flags) and the expansion state behind expandableConfig; the      *)
(* component renders a view from them and reports header and row clicks     *)
(* through onChangeSortSetting and onChangeExpansion.                       *)
(*                                                                         *)
(* State: the caller's props and expansion store, the markup of the last    *)
(* render (with the click handlers its cells and rows carry), the log of    *)
(* the callbacks invoked by the last step, a record of that step, and the   *)
(* history of the sort settings an adopting caller received.                *)
(*                                                                         *)
(* A caller that adopts a requested setting or expansion state passes it    *)
(* back as props, so the table re-renders within the same step.  Props that *)
(* only style the markup (className, firstCellBordered, titleAlign, title,  *)
(* rollup, renderNoResult, loadingLabel) and the unused state fields        *)
(* (visible, activeIndex = NaN) are left out.  Sort keys are values on      *)
(* which === is equality.                                                   *)
(*                                                                         *)
(* There is one specification per concern, each with the caller changing    *)
(* the props that concern reads: SpecRender (the body and the display       *)
(* flags), SpecSort (the header and header clicks), SpecExpand (row         *)
(* clicks), SpecCycle and SpecClicks (header clicks with an adopting        *)
(* caller, from any setting and from the default one).                      *)
(***************************************************************************)
EXTENDS Integers, Sequences, FiniteSets, TLC

VARIABLES props, expandedRows, view, calls, event, trail

vars == <<props, expandedRows, view, calls, event, trail>>

----------------------------------------------------------------------------
(* Bounds of the model. *)

\* most rows a caller asks for
MaxCount == 2
\* most columns a caller passes
MaxCols == 2
\* header clicks remembered by the click history
MaxTrail == 4

----------------------------------------------------------------------------
(* JavaScript values the props range over. *)

Undefined == "undefined"
Null == "null"
False == "false"
True == "true"

\* sortKey?: any -- absent, null, or an identity; === on these is equality
SortKeys == {Undefined, Null, "age", "name"}

\* loading?: boolean, empty?: boolean
FlagValues == {Undefined, False, True}

\* emptyProps?: EmptyProps
EmptyPropsValues == {Undefined, "no-data"}

\* JavaScript truthiness of a flag prop
Truthy(v) == v = True

\* lodash isUndefined
isUndefined(v) == v = Undefined

SortableColumn == [sortKey : SortKeys]

SortSetting == [sortKey : SortKeys, ascending : BOOLEAN]

RECURSIVE SeqsUpTo(_, _)
SeqsUpTo(S, n) ==
  IF n = 0 THEN {<<>>}
  ELSE LET shorter == SeqsUpTo(S, n - 1)
       IN  shorter \cup {Append(s, x) : s \in {t \in shorter : Len(t) = n - 1}, x \in S}

ColumnSets == SeqsUpTo(SortableColumn, MaxCols)

TableProps ==
  [count : 0..MaxCount, columns : ColumnSets, sortSetting : SortSetting,
   expandableConfig : BOOLEAN, loading : FlagValues, empty : FlagValues,
   emptyProps : EmptyPropsValues]

defaultProps ==
  [count |-> 0, columns |-> <<>>,
   sortSetting |-> [sortKey |-> Null, ascending |-> FALSE],
   expandableConfig |-> FALSE, loading |-> Undefined, empty |-> Undefined,
   emptyProps |-> Undefined]

----------------------------------------------------------------------------
(* Markup and the callback log. *)

\* one entry of the callback log: the function called and its arguments
Call(fn, row, col, arg, flag) ==
  [fn |-> fn, row |-> row, col |-> col, arg |-> arg, flag |-> flag]

NoArg == [sortKey |-> Undefined, ascending |-> FALSE]

\* no row, no column
NoIndex == 0 - 1

\* the caller's rowClass(rowIndex): alternating stripes
rowClass(rowIndex) == IF rowIndex % 2 = 0 THEN "row-even" ELSE "row-odd"

\* expandableConfig.rowIsExpanded(rowIndex), answered from the caller's store
rowIsExpanded(exp, rowIndex) == rowIndex \in exp

\* a <td> or <th>
Cell(kind, col, row, colSpan, classes, glyph) ==
  [kind |-> kind, col |-> col, row |-> row, colSpan |-> colSpan,
   classes |-> classes, glyph |-> glyph]

\* the onClick of a body row: the closure over onClickExpand, rowIndex, expanded
RowHandler(bound, onClickExpand, rowIndex, expanded) ==
  [bound |-> bound, onClickExpand |-> onClickExpand, rowIndex |-> rowIndex,
   expanded |-> expanded]

\* a <tr> of the body
Row(kind, key, rowIndex, classes, cells, onClick) ==
  [kind |-> kind, key |-> key, rowIndex |-> rowIndex, classes |-> classes,
   cells |-> cells, onClick |-> onClick]

expansionControl(expanded) ==
  Cell("expansion-control", NoIndex, NoIndex, 1,
       {"sort-table__cell", "sort-table__cell__expansion-control"},
       IF expanded THEN "down" ELSE "right")

\* the classes of the body row of rowIndex
rowClasses(p, rowIndex) ==
  {"sort-table__row", "sort-table__row--body", rowClass(rowIndex)}
    \cup (IF p.expandableConfig THEN {"sort-table__row--expandable"} ELSE {})

\* the <td> of column colIndex (0-based) in row rowIndex, holding c.cell(rowIndex)
dataCell(colIndex, rowIndex) ==
  Cell("cell", colIndex, rowIndex, 1, {"sort-table__cell"}, "")

\* the body row proper of renderRow
bodyRow(p, exp, rowIndex) ==
  LET expanded == p.expandableConfig /\ rowIsExpanded(exp, rowIndex)
      onClickExpand == p.expandableConfig
  IN  Row("body", rowIndex, rowIndex, rowClasses(p, rowIndex),
          (IF p.expandableConfig THEN <<expansionControl(expanded)>> ELSE <<>>)
            \o [c \in 1..Len(p.columns) |-> dataCell(c - 1, rowIndex)],
          RowHandler(TRUE, onClickExpand, rowIndex, expanded))

NoRowHandler == RowHandler(FALSE, FALSE, NoIndex, FALSE)

\* the two rows renderRow pushes for an expanded row
expandedRowsOf(p, rowIndex) ==
  << Row("spacer", 2, rowIndex, rowClasses(p, rowIndex), <<>>, NoRowHandler),
     Row("expanded-area", 3, rowIndex,
         {"sort-table__row", "sort-table__row--body", "sort-table__row--expanded-area"},
         << Cell("blank", NoIndex, rowIndex, 1, {}, ""),
            Cell("expanded-content", NoIndex, rowIndex, Len(p.columns),
                 {"sort-table__cell"}, "") >>,
         NoRowHandler) >>

\* an expanded area pushed for every row of an expandable table
pushesExpandedArea_Mutant(p, exp, rowIndex) == p.expandableConfig

\* whether renderRow pushes the expanded area for rowIndex
pushesExpandedArea(p, exp, rowIndex) ==
  p.expandableConfig /\ rowIsExpanded(exp, rowIndex)

\* renderRow(rowIndex): the rows it returns
renderRow(p, exp, rowIndex) ==
  <<bodyRow(p, exp, rowIndex)>>
    \o (IF pushesExpandedArea(p, exp, rowIndex)
        THEN expandedRowsOf(p, rowIndex) ELSE <<>>)

\* renderRow(rowIndex): the caller's callbacks it invokes, in order
renderRowCalls(p, exp, rowIndex) ==
  <<Call("renderRow", rowIndex, NoIndex, NoArg, FALSE),
    Call("rowClass", rowIndex, NoIndex, NoArg, FALSE)>>
    \o (IF p.expandableConfig
        THEN <<Call("rowIsExpanded", rowIndex, NoIndex, NoArg, FALSE)>> ELSE <<>>)
    \o [c \in 1..Len(p.columns) |-> Call("cell", rowIndex, c - 1, NoArg, FALSE)]
    \o (IF p.expandableConfig
        THEN <<Call("rowIsExpanded", rowIndex, NoIndex, NoArg, FALSE)>> ELSE <<>>)
    \o (IF pushesExpandedArea(p, exp, rowIndex)
        THEN <<Call("expandedContent", rowIndex, NoIndex, NoArg, FALSE)>> ELSE <<>>)

\* an iteration that counts rows from 1
times_Mutant(n) == [k \in 1..n |-> k]

\* lodash times(n, iteratee): the indices the iteratee is called with, in order
times(n) == [k \in 1..n |-> k - 1]

\* React flattens the array of arrays times(count, renderRow) returns
RECURSIVE Flatten(_)
Flatten(ss) == IF ss = <<>> THEN <<>> ELSE Head(ss) \o Flatten(Tail(ss))

\* the onClick of a header cell: the closure over c.sortKey, or none
HeaderHandler(bound, sortKey) == [bound |-> bound, sortKey |-> sortKey]

\* sort marks compared outside the test that sortKey is defined
sortMarks_Mutant(c, sortSetting) ==
  IF c.sortKey = sortSetting.sortKey
  THEN IF sortSetting.ascending
       THEN {"sort-table__cell--ascending"}
       ELSE {"sort-table__cell--descending"}
  ELSE {}

\* the sort-direction classes of the header cell of column c
sortMarks(c, sortSetting) ==
  IF ~isUndefined(c.sortKey) /\ c.sortKey = sortSetting.sortKey
  THEN IF sortSetting.ascending
       THEN {"sort-table__cell--ascending"}
       ELSE {"sort-table__cell--descending"}
  ELSE {}

\* a header made sortable by a test against null instead of undefined
headerIsSortable_Mutant(c) == c.sortKey # Null

\* whether the header cell of column c gets an onClick
headerIsSortable(c) == ~isUndefined(c.sortKey)

\* the <th> of column c at colIndex (0-based)
headerCell(c, colIndex, sortSetting) ==
  [kind |-> "th", col |-> colIndex,
   classes |-> {"sort-table__cell"}
                 \cup (IF headerIsSortable(c) THEN {"sort-table__cell--sortable"} ELSE {})
                 \cup sortMarks(c, sortSetting),
   onClick |-> IF headerIsSortable(c)
               THEN HeaderHandler(TRUE, c.sortKey)
               ELSE HeaderHandler(FALSE, Undefined),
   actions |-> ~isUndefined(c.sortKey)]

blankHeaderCell ==
  [kind |-> "blank", col |-> NoIndex, classes |-> {"sort-table__cell"},
   onClick |-> HeaderHandler(FALSE, Undefined), actions |-> FALSE]

\* the header row of render
headerRow(p) ==
  (IF p.expandableConfig THEN <<blankHeaderCell>> ELSE <<>>)
    \o [c \in 1..Len(p.columns) |-> headerCell(p.columns[c], c - 1, p.sortSetting)]

\* an empty-state view shown only when there are no rows
rendersEmpty_Mutant(p) == Truthy(p.empty) /\ p.count = 0

\* whether render returns the external empty-state view
rendersEmpty(p) == Truthy(p.empty)

\* whether the body rows are rendered
rendersRows(p) == ~Truthy(p.loading)

\* whether the loading indicator is rendered
rendersLoading(p) == Truthy(p.loading)

\* whether the "no results" placeholder is rendered
rendersNoResults(p) == p.count = 0

\* render(): the markup
render(p, exp) ==
  IF rendersEmpty(p)
  THEN [root |-> "Empty", emptyProps |-> p.emptyProps, header |-> <<>>,
        body |-> <<>>, loading |-> FALSE, noResults |-> FALSE]
  ELSE [root |-> "cl-table-wrapper", emptyProps |-> Undefined,
        header |-> headerRow(p),
        body |-> IF rendersRows(p)
                 THEN Flatten([k \in 1..Len(times(p.count)) |->
                                 renderRow(p, exp, times(p.count)[k])])
                 ELSE <<>>,
        loading |-> rendersLoading(p),
        noResults |-> rendersNoResults(p)]

\* render(): the caller's callbacks it invokes, in order
renderCalls(p, exp) ==
  IF rendersEmpty(p) \/ ~rendersRows(p) THEN <<>>
  ELSE Flatten([k \in 1..Len(times(p.count)) |->
                  renderRowCalls(p, exp, times(p.count)[k])])

----------------------------------------------------------------------------
(* Click handlers. *)

\* clickSort that keeps toggling the direction and never removes the sort key
clickSort_Mutant(sortSetting, clickedSortKey) ==
  [sortKey |-> clickedSortKey,
   ascending |-> sortSetting.sortKey = clickedSortKey /\ ~sortSetting.ascending]

\* clickSort(clickedSortKey): the setting passed to onChangeSortSetting
clickSort(sortSetting, clickedSortKey) ==
  LET same == sortSetting.sortKey = clickedSortKey
      ascending == same /\ ~sortSetting.ascending
      sortKey == IF same /\ sortSetting.ascending THEN Null ELSE clickedSortKey
  IN  [sortKey |-> sortKey, ascending |-> ascending]

\* a row click that requests the state the row already has
nextExpanded_Mutant(handler) == handler.expanded

\* the onClick of a body row: the expanded argument passed to onClickExpand
nextExpanded(handler) == ~handler.expanded

\* a caller that adopts onChangeExpansion(rowIndex, expanded)
adoptExpansion(exp, rowIndex, expanded) ==
  IF expanded THEN exp \cup {rowIndex} ELSE exp \ {rowIndex}

\* the record of a step: what was activated and the caller's state before it
Event(kind, at, target, colKey, rowIndex, adopted) ==
  [kind |-> kind, at |-> at, target |-> target, colKey |-> colKey, rowIndex |-> rowIndex,
   adopted |-> adopted, before |-> props.sortSetting,
   beforeExpanded |-> expandedRows]

RenderEvent(kind) ==
  [kind |-> kind, at |-> 0, target |-> "none", colKey |-> Undefined, rowIndex |-> NoIndex,
   adopted |-> FALSE, before |-> NoArg, beforeExpanded |-> {}]

----------------------------------------------------------------------------
(* The state machine. *)

\* the rows a caller's expansion store can speak of
RowsOf(p) == IF p.expandableConfig THEN 0..(p.count - 1) ELSE {}

\* the component is constructed with the caller's columns and the default props
Init ==
  /\ props \in {[defaultProps EXCEPT !.columns = cs] : cs \in ColumnSets}
  /\ expandedRows = {}
  /\ view = render(props, expandedRows)
  /\ calls = renderCalls(props, expandedRows)
  /\ event = RenderEvent("mount")
  /\ trail = <<>>

\* the caller passes props p with its expansion store at exp: the table re-renders
Rerender(p, exp) ==
  /\ <<p, exp>> # <<props, expandedRows>>
  /\ props' = p
  /\ expandedRows' = exp
  /\ view' = render(p, exp)
  /\ calls' = renderCalls(p, exp)
  /\ event' = RenderEvent("props")
  /\ trail' = <<>>

SetCount(n) ==
  LET p == [props EXCEPT !.count = n]
  IN  Rerender(p, expandedRows \cap RowsOf(p))

SetSortSetting(ss) == Rerender([props EXCEPT !.sortSetting = ss], expandedRows)

SetLoading(v) == Rerender([props EXCEPT !.loading = v], expandedRows)

SetEmpty(v) == Rerender([props EXCEPT !.empty = v], expandedRows)

SetEmptyProps(v) == Rerender([props EXCEPT !.emptyProps = v], expandedRows)

SetExpandableConfig(b) ==
  LET p == [props EXCEPT !.expandableConfig = b]
  IN  Rerender(p, expandedRows \cap RowsOf(p))

\* the caller expands or collapses a row on its own side and re-renders
SetRowExpanded(i, b) ==
  /\ i \in RowsOf(props)
  /\ Rerender(props, adoptExpansion(expandedRows, i, b))

\* the setting a header click leaves the caller with, for the click history
TrailEntry(key, before, after) == [key |-> key, before |-> before, after |-> after]

\* the click history: the last MaxTrail entries
Remember(entry) ==
  LET all == Append(trail, entry)
  IN  IF Len(all) > MaxTrail THEN Tail(all) ELSE all

\* the header cell at position h of the rendered header row is activated
ClickHeader(h, adopt) ==
  /\ h \in 1..Len(view.header)
  /\ LET cell == view.header[h]
         colKey == IF cell.kind = "th" THEN props.columns[cell.col + 1].sortKey
                   ELSE Undefined
         emitted == clickSort(props.sortSetting, cell.onClick.sortKey)
         handlerCalls ==
           <<Call("clickSort", NoIndex, NoIndex,
                  [sortKey |-> cell.onClick.sortKey, ascending |-> FALSE], FALSE),
             Call("onChangeSortSetting", NoIndex, NoIndex, emitted, FALSE)>>
     IN  /\ event' = Event("header", h, cell.kind, colKey, NoIndex, adopt /\ cell.onClick.bound)
         /\ UNCHANGED expandedRows
         /\ IF ~cell.onClick.bound
            THEN /\ calls' = <<>>
                 /\ UNCHANGED <<props, view, trail>>
            ELSE IF adopt
            THEN /\ props' = [props EXCEPT !.sortSetting = emitted]
                 /\ view' = render(props', expandedRows)
                 /\ calls' = handlerCalls \o renderCalls(props', expandedRows)
                 /\ trail' = Remember(TrailEntry(cell.onClick.sortKey,
                                                 props.sortSetting, emitted))
            ELSE /\ calls' = handlerCalls
                 /\ trail' = <<>>
                 /\ UNCHANGED <<props, view>>

\* the row at position r of the rendered body is clicked
ClickRow(r, adopt) ==
  /\ r \in 1..Len(view.body)
  /\ LET row == view.body[r]
         fires == row.onClick.bound /\ row.onClick.onClickExpand
         requested == nextExpanded(row.onClick)
         handlerCalls ==
           <<Call("onChangeExpansion", row.onClick.rowIndex, NoIndex, NoArg, requested)>>
     IN  /\ event' = Event("row", r, row.kind, Undefined, row.rowIndex, adopt /\ fires)
         /\ UNCHANGED <<props, trail>>
         /\ IF ~fires
            THEN /\ calls' = <<>>
                 /\ UNCHANGED <<expandedRows, view>>
            ELSE IF adopt
            THEN /\ expandedRows' =
                      adoptExpansion(expandedRows, row.onClick.rowIndex, requested)
                 /\ view' = render(props, expandedRows')
                 /\ calls' = handlerCalls \o renderCalls(props, expandedRows')
            ELSE /\ calls' = handlerCalls
                 /\ UNCHANGED <<expandedRows, view>>

\* positions of the header row and of the body
HeaderPositions == 1..(MaxCols + 1)
BodyPositions == 1..(3 * MaxCount)

\* rendering: the caller changes the props the body depends on, nothing is clicked
NextRender ==
  \/ \E n \in 0..MaxCount : SetCount(n)
  \/ \E v \in FlagValues : SetLoading(v)
  \/ \E v \in FlagValues : SetEmpty(v)
  \/ \E v \in EmptyPropsValues : SetEmptyProps(v)
  \/ \E b \in BOOLEAN : SetExpandableConfig(b)
  \/ \E i \in 0..(MaxCount - 1), b \in BOOLEAN : SetRowExpanded(i, b)

SpecRender == Init /\ [][NextRender]_vars

\* sorting: header clicks, with any caller and any current sort setting
NextSort ==
  \/ \E ss \in SortSetting : SetSortSetting(ss)
  \/ \E b \in BOOLEAN : SetExpandableConfig(b)
  \/ \E h \in HeaderPositions, adopt \in BOOLEAN : ClickHeader(h, adopt)

SpecSort == Init /\ [][NextSort]_vars

\* expansion: row clicks, with any caller
NextExpand ==
  \/ \E n \in 0..MaxCount : SetCount(n)
  \/ \E b \in BOOLEAN : SetExpandableConfig(b)
  \/ \E r \in BodyPositions, adopt \in BOOLEAN : ClickRow(r, adopt)

SpecExpand == Init /\ [][NextExpand]_vars

\* header clicks with a caller that adopts every emitted setting, from any setting
NextCycle ==
  \/ \E ss \in SortSetting : SetSortSetting(ss)
  \/ \E h \in HeaderPositions : ClickHeader(h, TRUE)

SpecCycle == Init /\ [][NextCycle]_vars

\* header clicks with a caller that adopts every emitted setting, from the default
NextClicks == \E h \in HeaderPositions : ClickHeader(h, TRUE)

SpecClicks == Init /\ [][NextClicks]_vars

----------------------------------------------------------------------------
(* Vocabulary of the properties. *)

\* the entries of the callback log that call fn
CallsOf(fn) == SelectSeq(calls, LAMBDA c : c.fn = fn)

SortSettingOf(k, a) == [sortKey |-> k, ascending |-> a]

ClearedSetting == SortSettingOf(Null, FALSE)

DirectionMarks == {"sort-table__cell--ascending", "sort-table__cell--descending"}

\* the sort-direction marks a header cell carries
MarksOf(cell) == cell.classes \cap DirectionMarks

\* the rendered rows that belong to row index i, in order
RowsFor(i) == SelectSeq(view.body, LAMBDA r : r.rowIndex = i)

\* the rendered body rows proper, in order
DataRows == SelectSeq(view.body, LAMBDA r : r.kind = "body")

TableRendered == ~Truthy(props.empty)

\* the last step rendered, so the callback log holds the callbacks of a render
LastStepRendered == event.kind \in {"mount", "props"} \/ event.adopted

BodyRendered == TableRendered /\ ~Truthy(props.loading)

----------------------------------------------------------------------------
(* C1: whenever clickSort(K) runs with the current sort setting                *)
(* {sortKey: J, ascending: a}, it calls onChangeSortSetting exactly once, with *)
(* {K, false} if J differs from K, {K, true} if J equals K and a is false, and *)
(* {null, false} if J equals K and a is true.                                  *)
C1_ClickSortContract ==
  CallsOf("clickSort") # <<>> =>
    LET K == CallsOf("clickSort")[1].arg.sortKey
        J == event.before.sortKey
        a == event.before.ascending
        emitted == CallsOf("onChangeSortSetting")
    IN  /\ Len(CallsOf("clickSort")) = 1
        /\ Len(emitted) = 1
        /\ emitted[1].arg =
             IF J # K THEN SortSettingOf(K, FALSE)
             ELSE IF ~a THEN SortSettingOf(K, TRUE)
             ELSE ClearedSetting

\* a header with key "age" was clicked while the setting was {age, ascending}
C1_Witness ==
  /\ event.kind = "header"
  /\ event.colKey = "age"
  /\ event.before = SortSettingOf("age", TRUE)
  /\ Len(CallsOf("onChangeSortSetting")) = 1
  /\ CallsOf("onChangeSortSetting")[1].arg = ClearedSetting

(* C2: a header cell is interactive exactly when its column's sortKey is       *)
(* defined; activating the header of a column without a defined sortKey calls  *)
(* nothing, and activating the header of a column with a defined sortKey calls *)
(* clickSort with that column's sortKey.                                       *)
C2_SortableIffDefined ==
  /\ \A h \in 1..Len(view.header) :
       view.header[h].kind = "th" =>
         LET key == props.columns[view.header[h].col + 1].sortKey
         IN  /\ view.header[h].onClick.bound <=> ~isUndefined(key)
             /\ ("sort-table__cell--sortable" \in view.header[h].classes)
                  <=> ~isUndefined(key)
  /\ (event.kind = "header" /\ event.target = "th") =>
       IF isUndefined(event.colKey)
       THEN calls = <<>>
       ELSE /\ Len(CallsOf("clickSort")) = 1
            /\ calls[1].fn = "clickSort"
            /\ calls[1].arg.sortKey = event.colKey

\* the header of a column without a sortKey was activated, beside a sortable one
C2_Witness ==
  /\ event.kind = "header"
  /\ event.target = "th"
  /\ isUndefined(event.colKey)
  /\ \E c \in 1..Len(props.columns) : props.columns[c].sortKey = "name"
  /\ calls = <<>>

(* C7: a header cell carries a sort-direction mark exactly when its column's   *)
(* sortKey is defined and equals the current setting's sortKey; the mark is    *)
(* 'ascending' when the setting is ascending and 'descending' otherwise, never *)
(* both.  The header row has one cell per column in column order, preceded by  *)
(* one blank cell exactly when expandableConfig is supplied.                   *)
C7_HeaderMarks ==
  TableRendered =>
    LET lead == IF props.expandableConfig THEN 1 ELSE 0
    IN  /\ Len(view.header) = Len(props.columns) + lead
        /\ \A h \in 1..Len(view.header) :
             IF h <= lead
             THEN view.header[h].kind = "blank" /\ MarksOf(view.header[h]) = {}
             ELSE LET cell == view.header[h]
                      key == props.columns[h - lead].sortKey
                      marked == ~isUndefined(key) /\ key = props.sortSetting.sortKey
                  IN  /\ cell.kind = "th"
                      /\ cell.col = h - lead - 1
                      /\ MarksOf(cell) # {} <=> marked
                      /\ marked =>
                           MarksOf(cell) =
                             IF props.sortSetting.ascending
                             THEN {"sort-table__cell--ascending"}
                             ELSE {"sort-table__cell--descending"}
                      /\ Cardinality(MarksOf(cell)) <= 1

\* an expandable table whose second column is the one sorted, ascending
C7_Witness ==
  /\ props.expandableConfig
  /\ Len(props.columns) = 2
  /\ props.columns[1].sortKey = Undefined
  /\ props.columns[2].sortKey = "age"
  /\ props.sortSetting = SortSettingOf("age", TRUE)
  /\ Len(view.header) = 3
  /\ MarksOf(view.header[3]) = {"sort-table__cell--ascending"}
  /\ MarksOf(view.header[2]) = {}

(* C3: with empty not set and loading not set, render calls renderRow exactly  *)
(* once for each row index 0..count-1, in increasing order, and produces       *)
(* exactly count data rows; with loading true it produces no body row, calls   *)
(* no cell(rowIndex) callback, and shows the loading indicator instead.        *)
C3_CountRows ==
  (TableRendered /\ LastStepRendered) =>
    IF ~Truthy(props.loading)
    THEN /\ Len(CallsOf("renderRow")) = props.count
         /\ \A k \in 1..Len(CallsOf("renderRow")) : CallsOf("renderRow")[k].row = k - 1
         /\ Len(DataRows) = props.count
         /\ \A k \in 1..Len(DataRows) : DataRows[k].rowIndex = k - 1
         /\ ~view.loading
    ELSE /\ view.body = <<>>
         /\ CallsOf("cell") = <<>>
         /\ CallsOf("renderRow") = <<>>
         /\ view.loading

\* two rows of two columns are rendered
C3_Witness ==
  /\ TableRendered
  /\ ~Truthy(props.loading)
  /\ props.count = 2
  /\ Len(props.columns) = 2
  /\ Len(DataRows) = 2
  /\ Len(CallsOf("cell")) = 4

(* C4: renderRow(i) emits exactly one body row when expansion is not enabled   *)
(* or rowIsExpanded(i) is false, and exactly three rows when expansion is      *)
(* enabled and rowIsExpanded(i) is true: the body row, a spacer row without    *)
(* cells that carries the class of the body row, and an expanded-content row   *)
(* whose content cell spans all data columns and holds expandedContent(i).     *)
(* expandedContent(i) is never called for a row that is not expanded.          *)
C4_RenderRow ==
  (BodyRendered /\ LastStepRendered) =>
    \A i \in 0..(props.count - 1) :
      LET rows == RowsFor(i)
          isExpanded == props.expandableConfig /\ i \in expandedRows
          contentCalls == SelectSeq(CallsOf("expandedContent"), LAMBDA c : c.row = i)
      IN  IF ~isExpanded
          THEN /\ Len(rows) = 1
               /\ rows[1].kind = "body"
               /\ contentCalls = <<>>
          ELSE /\ Len(rows) = 3
               /\ rows[1].kind = "body"
               /\ rows[2].kind = "spacer"
               /\ rows[2].cells = <<>>
               /\ rows[2].classes = rows[1].classes
               /\ rows[3].kind = "expanded-area"
               /\ \E c \in 1..Len(rows[3].cells) :
                    /\ rows[3].cells[c].kind = "expanded-content"
                    /\ rows[3].cells[c].row = i
                    /\ rows[3].cells[c].colSpan = Len(props.columns)
               /\ Len(contentCalls) = 1

\* of two rows the second is expanded and the first is not
C4_Witness ==
  /\ BodyRendered
  /\ props.count = 2
  /\ props.expandableConfig
  /\ expandedRows = {1}
  /\ Len(props.columns) = 2
  /\ Len(view.body) = 4
  /\ view.body[4].kind = "expanded-area"

(* C5: when empty is set, render returns only the external empty-state view,   *)
(* passed emptyProps unchanged: no table, header, body row, loading indicator  *)
(* or no-results placeholder, whatever count, columns and loading are, and no  *)
(* cell, rowIsExpanded or expandedContent callback is called.                  *)
C5_EmptyDelegates ==
  (Truthy(props.empty) /\ LastStepRendered) =>
    /\ view.root = "Empty"
    /\ view.emptyProps = props.emptyProps
    /\ view.header = <<>>
    /\ view.body = <<>>
    /\ ~view.loading
    /\ ~view.noResults
    /\ \A k \in 1..Len(calls) :
         calls[k].fn \notin {"cell", "rowIsExpanded", "expandedContent"}

\* empty is set on a loading, expandable table with rows and columns
C5_Witness ==
  /\ Truthy(props.empty)
  /\ props.emptyProps = "no-data"
  /\ props.count = 2
  /\ Len(props.columns) = 2
  /\ Truthy(props.loading)
  /\ props.expandableConfig
  /\ view.root = "Empty"

(* C6: with empty not set, the "no results" placeholder is rendered exactly    *)
(* when count === 0 and the table is not loading.                              *)
C6_NoResultsExactly ==
  TableRendered => (view.noResults <=> (props.count = 0 /\ ~Truthy(props.loading)))

\* a click on the body row of row i: what it calls and what an adopting caller keeps
C8_ClickStep ==
  (event.kind = "row" /\ event.target = "body") =>
    LET i == event.rowIndex
        requests == CallsOf("onChangeExpansion")
    IN  IF ~props.expandableConfig
        THEN calls = <<>>
        ELSE /\ Len(requests) = 1
             /\ requests[1].row = i
             /\ requests[1].flag = ~(i \in event.beforeExpanded)
             /\ event.adopted =>
                  /\ expandedRows \ {i} = event.beforeExpanded \ {i}
                  /\ (i \in expandedRows) = requests[1].flag

\* a second adopted click on the row the last step clicked: the store is as before both
C8_TwoClicksRestore ==
  (/\ event.kind = "row" /\ event.target = "body" /\ event.adopted
   /\ event'.kind = "row" /\ event'.target = "body" /\ event'.adopted
   /\ event'.rowIndex = event.rowIndex)
    => expandedRows' = event.beforeExpanded

(* C8: with expansion enabled, a click on row i calls onChangeExpansion        *)
(* exactly once, with (i, not rowIsExpanded(i) as of the render that produced  *)
(* the row), and for no other row; without expandableConfig a row click calls  *)
(* nothing.  With a caller that adopts each requested state, a click on row i  *)
(* never changes the expansion state of a row j # i, and two consecutive       *)
(* clicks on row i restore row i's expansion state.                            *)
C8_RowExpansion == [](C8_ClickStep) /\ [][C8_TwoClicksRestore]_vars

\* row 1 was clicked twice by an adopting caller while row 0 stayed expanded
C8_Witness ==
  /\ event.kind = "row"
  /\ event.target = "body"
  /\ event.adopted
  /\ event.rowIndex = 1
  /\ event.beforeExpanded = {0, 1}
  /\ expandedRows = {0}
  /\ Len(CallsOf("onChangeExpansion")) = 1

\* the clicks at positions i..j of the click history are all on key K
RunOn(K, i, j) == \A n \in i..j : trail[n].key = K

(* C9: with a caller that adopts every emitted sort setting, repeated clicks   *)
(* on the same sortable header with non-null key K form a cycle of period      *)
(* three: from any setting whose sortKey differs from K the first click gives  *)
(* {K, descending}, the second {K, ascending}, the third {null, false} and the *)
(* fourth {K, descending} again; a click on a different sortable header with   *)
(* key K' # K at any point of the cycle gives {K', descending}.                *)
C9_TriStateCycle ==
  \A i \in 1..Len(trail) :
    LET K == trail[i].key
    IN  (K # Null /\ trail[i].before.sortKey # K) =>
          /\ trail[i].after = SortSettingOf(K, FALSE)
          /\ (i + 1 <= Len(trail) /\ RunOn(K, i, i + 1)) =>
               trail[i + 1].after = SortSettingOf(K, TRUE)
          /\ (i + 2 <= Len(trail) /\ RunOn(K, i, i + 2)) =>
               trail[i + 2].after = ClearedSetting
          /\ (i + 3 <= Len(trail) /\ RunOn(K, i, i + 3)) =>
               trail[i + 3].after = SortSettingOf(K, FALSE)
          /\ \A j \in i..(Len(trail) - 1) :
               (RunOn(K, i, j) /\ trail[j + 1].key # K) =>
                 trail[j + 1].after = SortSettingOf(trail[j + 1].key, FALSE)

(* C10: starting from the default sort setting {null, false}, with a caller    *)
(* that adopts every emitted setting, after any clicks on headers of columns   *)
(* whose sortKey is defined (null included) the setting is either the cleared  *)
(* setting or has the sortKey of a column marked in the header; {null, true}   *)
(* is never reached; and in the cleared setting no header cell carries a       *)
(* sort-direction mark.                                                        *)
C10_SettingInvariant ==
  /\ \/ props.sortSetting = ClearedSetting
     \/ \E h \in 1..Len(view.header) :
          /\ view.header[h].kind = "th"
          /\ MarksOf(view.header[h]) # {}
          /\ props.columns[view.header[h].col + 1].sortKey = props.sortSetting.sortKey
  /\ props.sortSetting # SortSettingOf(Null, TRUE)
  /\ props.sortSetting = ClearedSetting =>
       \A h \in 1..Len(view.header) : MarksOf(view.header[h]) = {}

====
